---- MODULE Spec2Model ----
(***************************************************************************)
(* Model of spyder_kernels/comms/commbase.py: two CommBase endpoints       *)
(* connected by comms (channels), exchanging remote_call and               *)
(* remote_call_reply messages.                                             *)
(*                                                                         *)
(* Every method of CommBase is an operator over the record s of one        *)
(* endpoint's fields; it returns R(s', exc, val): the fields afterwards,   *)
(* the kind of the exception that left the method (None if it returned)    *)
(* and the value returned.  The actions apply these operators to an        *)
(* endpoint and hand the messages it sent to the transport.                *)
(***************************************************************************)
EXTENDS Integers, Sequences, FiniteSets, TLC

VARIABLES
    comms,                 \* CommBase._comms of each endpoint
    calling_comm_id,       \* CommBase.calling_comm_id
    remote_call_handlers,  \* CommBase._remote_call_handlers
    reply_inbox,           \* CommBase._reply_inbox
    reply_waitlist,        \* CommBase._reply_waitlist
    link,                  \* transport: each end of each comm, new/open/closed
    net,                   \* transport: the messages on their way to each end
    closeNote,             \* transport: a close notification on its way
    pc,                    \* the blocking call each endpoint is waiting in
    uuid,                  \* the next fresh call id
    resolved,              \* history: the call ids a reply has matched
    expired,               \* history: the call ids whose wait timed out
    untracked,             \* history: the ids of calls sent with no entry
    ev                     \* what the last operation was and did

vars == <<comms, calling_comm_id, remote_call_handlers, reply_inbox,
          reply_waitlist, link, net, closeNote, pc, uuid, resolved, expired,
          untracked, ev>>

----------------------------------------------------------------------------
(* Bounds and input sets *)

\* number of calls (uuids) drawn in one behaviour
MaxCalls == 2

Endpoints == {"A", "B"}
Peer(e) == IF e = "A" THEN "B" ELSE "A"
Chans == {"c1", "c2"}
None == "None"

----------------------------------------------------------------------------
(* Python values carried in buffers *)

PyNone == [t |-> "None"]
PyBool(b) == [t |-> "bool", v |-> b]
PyInt(n) == [t |-> "int", v |-> n]
\* the tuple (load_exception, []) of line 443
PyTuple(x) == [t |-> "tuple", first |-> x]

DEFAULT_PICKLE_PROTOCOL == 2

\* pickle.HIGHEST_PROTOCOL of the interpreter each endpoint runs in
HIGHEST_PROTOCOL(e) == IF e = "A" THEN 3 ELSE 4

Min(a, b) == IF a < b THEN a ELSE b

\* pickle's fix_imports, in force below protocol 3: a class is written under
\* its Python 2 name, and TimeoutError has none of its own: it is written
\* as exceptions.OSError, which loads as OSError. The other exception
\* classes of the model keep their name.
fix_imports(data) ==
    IF "t" \in DOMAIN data /\ data.t = "wrapper"
       /\ data.etype = "TimeoutError"
    THEN [data EXCEPT !.etype = "OSError"]
    ELSE data

\* cloudpickle.dumps(data, protocol=p): the bytes record the protocol used
dumps(data, protocol) ==
    [proto |-> protocol,
     obj |-> IF protocol < 3 THEN fix_imports(data) ELSE data]

\* cloudpickle.loads(bytes) in an interpreter whose highest protocol is
\* `highest`: "unsupported pickle protocol" (ValueError) above it
loads(buffer, highest) ==
    IF buffer.proto > highest
    THEN [exc |-> "ValueError", obj |-> PyNone]
    ELSE [exc |-> None, obj |-> buffer.obj]

\* exception classes whose constructor accepts a single argument
OneArgKinds == {"ZeroDivisionError", "RuntimeError", "CommError",
                "ValueError", "KeyError", "TypeError", "AttributeError",
                "TimeoutError", "OSError"}

\* CommsErrorWrapper(call_name, call_id) built while `etype` is being handled
CommsErrorWrapper(call_name, call_id, etype) ==
    [t |-> "wrapper", call_name |-> call_name, call_id |-> call_id,
     etype |-> etype]

\* call ids are 1, 2, ...; NoWait says that the calling flow is not suspended
NoWait == 0

\* the result of a method: fields afterwards, exception kind, return value;
\* wait is the call id whose reply the flow is suspended on in _wait_reply
R(s, exc, val) == [st |-> s, exc |-> exc, val |-> val, wait |-> NoWait]
Suspended(s, call_id) ==
    [st |-> s, exc |-> None, val |-> PyNone, wait |-> call_id]

\* dict helpers
DictSet(d, k, v) == (k :> v) @@ d
DictDel(d, k) == [x \in (DOMAIN d) \ {k} |-> d[x]]

----------------------------------------------------------------------------
(* What one operation did, for the properties: obs is reset when an        *)
(* operation starts.                                                       *)

NoObs == [handler |-> "not_called", herr |-> None, printed |-> 0,
          cbs |-> <<>>, unmatched |-> FALSE, load_exception |-> None]

----------------------------------------------------------------------------
(* CommBase *)

get_comm_id_list(s, comm_id) ==
    IF comm_id = None THEN DOMAIN s.comms ELSE {comm_id}

is_open(s, comm_id) ==
    IF comm_id = None
    THEN Cardinality(DOMAIN s.comms) > 0
    ELSE comm_id \in DOMAIN s.comms

is_ready(s, comm_id) ==
    LET id_list == get_comm_id_list(s, comm_id)
    IN  IF Cardinality(id_list) = 0 THEN R(s, None, PyBool(FALSE))
        ELSE IF \E cid \in id_list : cid \notin DOMAIN s.comms
        THEN R(s, "KeyError", PyNone)
        ELSE R(s, None, PyBool(\A cid \in id_list :
                                   s.comms[cid].status = "ready"))

\* (mutant) closing forgets the calls that wait for a reply
Close_DropsEntries(s, comm_id) ==
    LET id_list == get_comm_id_list(s, comm_id)
    IN  IF \E cid \in id_list : cid \notin DOMAIN s.comms
        THEN R(s, "KeyError", PyNone)
        ELSE R([s EXCEPT !.closed = @ \cup id_list,
                         !.waitlist = <<>>,
                         !.comms = [c \in (DOMAIN s.comms) \ id_list |->
                                       s.comms[c]]],
               None, PyNone)

\* close(comm_id): comm.close() tells the transport, then the session goes
close(s, comm_id) ==
    LET id_list == get_comm_id_list(s, comm_id)
    IN  IF \E cid \in id_list : cid \notin DOMAIN s.comms
        THEN R(s, "KeyError", PyNone)
        ELSE R([s EXCEPT !.closed = @ \cup id_list,
                         !.comms = [c \in (DOMAIN s.comms) \ id_list |->
                                       s.comms[c]]],
               None, PyNone)

register_call_handler(s, call_name, handler) ==
    IF handler = None
    THEN [s EXCEPT !.handlers =
             IF call_name \in DOMAIN @ THEN DictDel(@, call_name) ELSE @]
    ELSE [s EXCEPT !.handlers = DictSet(@, call_name, handler)]

_send_message(s, spyder_msg_type, content, data, comm_id) ==
    IF ~is_open(s, comm_id) THEN R(s, "CommError", PyNone)
    ELSE LET id_list == get_comm_id_list(s, comm_id)
             msg(cid) ==
                 [spyder_msg_type |-> spyder_msg_type,
                  content |-> content,
                  pickle_protocol |-> s.comms[cid].pickle_protocol,
                  buffer |-> dumps(data, s.comms[cid].pickle_protocol)]
         IN  R([s EXCEPT !.out = [c \in Chans |->
                    IF c \in id_list THEN Append(@[c], msg(c)) ELSE @[c]]],
               None, PyNone)

\* (mutant) the handshake makes every session of the endpoint ready
SetPickleProtocol_AllSessions(s, protocol) ==
    LET p == Min(protocol, HIGHEST_PROTOCOL(s.me))
    IN  IF s.calling_comm_id \notin DOMAIN s.comms
        THEN R(s, "KeyError", PyNone)
        ELSE R([s EXCEPT !.comms = [c \in DOMAIN s.comms |->
                   [pickle_protocol |-> p, status |-> "ready"]]],
               None, PyNone)

_set_pickle_protocol(s, protocol) ==
    LET p == Min(protocol, HIGHEST_PROTOCOL(s.me))
    IN  IF s.calling_comm_id \notin DOMAIN s.comms
        THEN R(s, "KeyError", PyNone)
        ELSE R([s EXCEPT !.comms[s.calling_comm_id] =
                   [pickle_protocol |-> p, status |-> "ready"]],
               None, PyNone)

_register_comm(s, comm_id) ==
    [s EXCEPT !.comms = DictSet(@, comm_id,
        [pickle_protocol |-> DEFAULT_PICKLE_PROTOCOL, status |-> "opening"])]

_comm_close(s, comm_id) ==
    IF comm_id \notin DOMAIN s.comms THEN R(s, "KeyError", PyNone)
    ELSE R([s EXCEPT !.comms = DictDel(@, comm_id)], None, PyNone)

_set_call_return_value(s, call_dict, data, is_error) ==
    LET settings == call_dict.settings
        send_reply == "send_reply" \in DOMAIN settings
                      /\ settings["send_reply"]
        content == [is_error |-> is_error, call_id |-> call_dict.call_id,
                    call_name |-> call_dict.call_name]
    IN  IF ~send_reply /\ ~is_error THEN R(s, None, PyNone)
        ELSE _send_message(s, "remote_call_reply", content, data,
                           s.calling_comm_id)

\* (mutant) every call gets a waitlist entry
RegisterCall_Always(s, call_dict, callback) ==
    LET settings == call_dict.settings
        blocking == "blocking" \in DOMAIN settings /\ settings["blocking"]
    IN  [s EXCEPT !.waitlist = DictSet(@, call_dict.call_id,
                           [blocking |-> blocking, callback |-> callback])]

_register_call(s, call_dict, callback) ==
    LET settings == call_dict.settings
        blocking == "blocking" \in DOMAIN settings /\ settings["blocking"]
    IN  IF blocking \/ callback # None
        THEN [s EXCEPT !.waitlist = DictSet(@, call_dict.call_id,
                           [blocking |-> blocking, callback |-> callback])]
        ELSE s

\* lines 400-420: send the call; a blocking call then suspends in _wait_reply
_get_call_return_value(s, call_dict, call_data, comm_id) ==
    LET sent == _send_message(s, "remote_call", call_dict, call_data, comm_id)
        settings == call_dict.settings
        blocking == "blocking" \in DOMAIN settings /\ settings["blocking"]
    IN  IF sent.exc # None THEN sent
        ELSE IF ~blocking THEN R(sent.st, None, PyNone)
        ELSE Suspended(sent.st, call_dict.call_id)

\* CommsErrorWrapper.raise_error: raise self.etype(self) builds a new
\* exception of the class from one argument; a class whose constructor
\* needs more raises TypeError instead.  The tuple of line 443 has no
\* raise_error.
raise_error(error_wrapper) ==
    IF error_wrapper.t # "wrapper" THEN "AttributeError"
    ELSE IF error_wrapper.etype \in OneArgKinds THEN error_wrapper.etype
    ELSE "TypeError"

_sync_error(s, error_wrapper) == R(s, raise_error(error_wrapper), PyNone)

\* error_wrapper.print_error(): prints; the tuple of line 443 has no
\* print_error
_async_error(s, error_wrapper) ==
    IF error_wrapper.t # "wrapper" THEN R(s, "AttributeError", PyNone)
    ELSE R([s EXCEPT !.obs.printed = @ + 1], None, PyNone)

\* lines 422-427, once _wait_reply has returned
_get_call_return_value_reply(s, call_id) ==
    IF call_id \notin DOMAIN s.inbox THEN R(s, "KeyError", PyNone)
    ELSE LET reply == s.inbox[call_id]
             s1 == [s EXCEPT !.inbox = DictDel(@, call_id)]
         IN  IF reply.is_error THEN _sync_error(s1, reply.value)
             ELSE R(s1, None, reply.value)

\* _wait_reply is left to the subclasses (line 433). The wait ends when the
\* inbox holds the call id ...
_wait_reply_done(s, call_id) == call_id \in DOMAIN s.inbox

\* (mutant) the timeout leaves the entry of the call in the waitlist
WaitReplyTimeout_KeepsEntry(s, call_id) == R(s, "TimeoutError", PyNone)

\* ... or at the timeout: the id leaves the waitlist and the caller gets a
\* timeout error
_wait_reply_timeout(s, call_id) ==
    R([s EXCEPT !.waitlist =
          IF call_id \in DOMAIN @ THEN DictDel(@, call_id) ELSE @],
      "TimeoutError", PyNone)

\* the callbacks a caller passes to remote_call
callback_call(s, callback, call_id, value) ==
    LET s1 == [s EXCEPT !.obs.cbs = Append(@, <<call_id, value>>)]
    IN  IF callback = "cb_raise" THEN R(s1, "ValueError", PyNone)
        ELSE R(s1, None, PyNone)

\* (mutant) the entry is read but stays in the waitlist
HandleReply_NoPop(s, msg_dict, buffer0, load_exception) ==
    LET content == msg_dict.content
        call_id == content.call_id
        buffer == IF load_exception # None THEN PyTuple(load_exception)
                  ELSE buffer0
        is_error == IF load_exception # None THEN TRUE ELSE content.is_error
    IN  IF call_id \notin DOMAIN s.waitlist
        THEN LET s0 == [s EXCEPT !.obs.unmatched = TRUE]
             IN  IF is_error THEN _async_error(s0, buffer)
                 ELSE R(s0, None, PyNone)
        ELSE LET entry == s.waitlist[call_id]
                 s1 == s
                 cb == IF entry.callback # None /\ ~is_error
                       THEN callback_call(s1, entry.callback, call_id, buffer)
                       ELSE R(s1, None, PyNone)
             IN  IF is_error /\ ~entry.blocking THEN _async_error(s1, buffer)
                 ELSE IF cb.exc # None THEN cb
                 ELSE IF entry.blocking
                 THEN R([cb.st EXCEPT !.inbox = DictSet(@, call_id,
                            [is_error |-> is_error, value |-> buffer,
                             content |-> content])], None, PyNone)
                 ELSE cb

\* (mutant) a reply that matches no entry takes some pending entry away
HandleReply_DropsPending(s, msg_dict, buffer0, load_exception) ==
    LET content == msg_dict.content
        call_id == content.call_id
        buffer == IF load_exception # None THEN PyTuple(load_exception)
                  ELSE buffer0
        is_error == IF load_exception # None THEN TRUE ELSE content.is_error
    IN  IF call_id \notin DOMAIN s.waitlist
        THEN LET s0 == [s EXCEPT !.obs.unmatched = TRUE,
                         !.waitlist = IF DOMAIN @ = {} THEN @
                             ELSE DictDel(@, CHOOSE k \in DOMAIN @ : TRUE)]
             IN  IF is_error THEN _async_error(s0, buffer)
                 ELSE R(s0, None, PyNone)
        ELSE LET entry == s.waitlist[call_id]
                 s1 == [s EXCEPT !.waitlist = DictDel(@, call_id)]
                 cb == IF entry.callback # None /\ ~is_error
                       THEN callback_call(s1, entry.callback, call_id, buffer)
                       ELSE R(s1, None, PyNone)
             IN  IF is_error /\ ~entry.blocking THEN _async_error(s1, buffer)
                 ELSE IF cb.exc # None THEN cb
                 ELSE IF entry.blocking
                 THEN R([cb.st EXCEPT !.inbox = DictSet(@, call_id,
                            [is_error |-> is_error, value |-> buffer,
                             content |-> content])], None, PyNone)
                 ELSE cb

\* (mutant) the inbox slot is written for every matched reply, blocking or not
HandleReply_InboxForAll(s, msg_dict, buffer0, load_exception) ==
    LET content == msg_dict.content
        call_id == content.call_id
        buffer == IF load_exception # None THEN PyTuple(load_exception)
                  ELSE buffer0
        is_error == IF load_exception # None THEN TRUE ELSE content.is_error
    IN  IF call_id \notin DOMAIN s.waitlist
        THEN LET s0 == [s EXCEPT !.obs.unmatched = TRUE]
             IN  IF is_error THEN _async_error(s0, buffer)
                 ELSE R(s0, None, PyNone)
        ELSE LET entry == s.waitlist[call_id]
                 s1 == [s EXCEPT !.waitlist = DictDel(@, call_id)]
                 cb == IF entry.callback # None /\ ~is_error
                       THEN callback_call(s1, entry.callback, call_id, buffer)
                       ELSE R(s1, None, PyNone)
             IN  IF is_error /\ ~entry.blocking THEN _async_error(s1, buffer)
                 ELSE IF cb.exc # None THEN cb
                 ELSE R([cb.st EXCEPT !.inbox = DictSet(@, call_id,
                            [is_error |-> is_error, value |-> buffer,
                             content |-> content])], None, PyNone)

\* (mutant) the callback is called for error replies too
HandleReply_CallbackOnError(s, msg_dict, buffer0, load_exception) ==
    LET content == msg_dict.content
        call_id == content.call_id
        buffer == IF load_exception # None THEN PyTuple(load_exception)
                  ELSE buffer0
        is_error == IF load_exception # None THEN TRUE ELSE content.is_error
    IN  IF call_id \notin DOMAIN s.waitlist
        THEN LET s0 == [s EXCEPT !.obs.unmatched = TRUE]
             IN  IF is_error THEN _async_error(s0, buffer)
                 ELSE R(s0, None, PyNone)
        ELSE LET entry == s.waitlist[call_id]
                 s1 == [s EXCEPT !.waitlist = DictDel(@, call_id)]
                 cb == IF entry.callback # None
                       THEN callback_call(s1, entry.callback, call_id, buffer)
                       ELSE R(s1, None, PyNone)
             IN  IF cb.exc # None THEN cb
                 ELSE IF is_error /\ ~entry.blocking
                 THEN _async_error(cb.st, buffer)
                 ELSE IF entry.blocking
                 THEN R([cb.st EXCEPT !.inbox = DictSet(@, call_id,
                            [is_error |-> is_error, value |-> buffer,
                             content |-> content])], None, PyNone)
                 ELSE cb

_handle_remote_call_reply(s, msg_dict, buffer0, load_exception) ==
    LET content == msg_dict.content
        call_id == content.call_id
        buffer == IF load_exception # None THEN PyTuple(load_exception)
                  ELSE buffer0
        is_error == IF load_exception # None THEN TRUE ELSE content.is_error
    IN  IF call_id \notin DOMAIN s.waitlist
        THEN LET s0 == [s EXCEPT !.obs.unmatched = TRUE]
             IN  IF is_error THEN _async_error(s0, buffer)
                 ELSE R(s0, None, PyNone)
        ELSE LET entry == s.waitlist[call_id]
                 s1 == [s EXCEPT !.waitlist = DictDel(@, call_id)]
                 cb == IF entry.callback # None /\ ~is_error
                       THEN callback_call(s1, entry.callback, call_id, buffer)
                       ELSE R(s1, None, PyNone)
             IN  IF is_error /\ ~entry.blocking THEN _async_error(s1, buffer)
                 ELSE IF cb.exc # None THEN cb
                 ELSE IF entry.blocking
                 THEN R([cb.st EXCEPT !.inbox = DictSet(@, call_id,
                            [is_error |-> is_error, value |-> buffer,
                             content |-> content])], None, PyNone)
                 ELSE cb

----------------------------------------------------------------------------
(* RemoteCall *)

\* (mutant) the call is registered before the target is checked
RemoteCall_RegistersFirst(s, name, comm_id, callback, settings0, args) ==
    LET blocking == "blocking" \in DOMAIN settings0 /\ settings0["blocking"]
        settings == DictSet(settings0, "send_reply",
                            blocking \/ callback # None)
        call_id == s.uuid
        call_dict == [call_name |-> name, call_id |-> call_id,
                      settings |-> settings]
        call_data == [call_args |-> args]
        s1 == _register_call([s EXCEPT !.uuid = @ + 1], call_dict, callback)
    IN  IF ~is_open(s1, comm_id)
        THEN IF blocking THEN R(s1, "CommError", PyNone)
             ELSE R(s1, None, PyNone)
        ELSE _get_call_return_value(s1, call_dict, call_data, comm_id)

RemoteCall___call__(s, name, comm_id, callback, settings0, args) ==
    LET blocking == "blocking" \in DOMAIN settings0 /\ settings0["blocking"]
        settings == DictSet(settings0, "send_reply",
                            blocking \/ callback # None)
        call_id == s.uuid
        s1 == [s EXCEPT !.uuid = @ + 1]
        call_dict == [call_name |-> name, call_id |-> call_id,
                      settings |-> settings]
        call_data == [call_args |-> args]
    IN  IF ~is_open(s1, comm_id)
        THEN IF blocking THEN R(s1, "CommError", PyNone)
             ELSE R(s1, None, PyNone)
        ELSE _get_call_return_value(_register_call(s1, call_dict, callback),
                                    call_dict, call_data, comm_id)

----------------------------------------------------------------------------
(* The call handlers: the three every endpoint registers (lines 157-163)   *)
(* and the ones an application registers with register_call_handler.       *)

\* pong_back (line 157): self.remote_call(self.calling_comm_id).pong()
pong_back(s) ==
    RemoteCall___call__(s, "pong", s.calling_comm_id, None, <<>>, PyNone)

\* divides 6 by its argument
div(s, x) ==
    IF x.v = 0 THEN R(s, "ZeroDivisionError", PyNone)
    ELSE R(s, None, PyInt(6 \div x.v))

\* decodes bytes that are not valid text
decode(s, x) == R(s, "UnicodeDecodeError", PyNone)

\* closes the comm the call came from, then fails (0) or returns its argument
quit(s, x) ==
    LET c == close(s, s.calling_comm_id)
    IN  IF c.exc # None THEN c
        ELSE IF x.v = 0 THEN R(c.st, "RuntimeError", PyNone)
        ELSE R(c.st, None, x)

\* asks the peer on comm c2 and waits for its answer, which it returns:
\* self.remote_call("c2", blocking=True).ping()
relay(s, x) ==
    RemoteCall___call__(s, "ping", "c2", None, [blocking |-> TRUE], PyNone)

handler_call(s, handler, args) ==
    CASE handler = "pong_back" -> pong_back(s)
      [] handler = "pong" -> R(s, None, PyNone)
      [] handler = "_set_pickle_protocol" -> _set_pickle_protocol(s, args.v)
      [] handler = "div" -> div(s, args)
      [] handler = "decode" -> decode(s, args)
      [] handler = "quit" -> quit(s, args)
      [] handler = "relay" -> relay(s, args)

_remote_callback(s, call_name, call_args) ==
    IF call_name \in DOMAIN s.handlers
    THEN handler_call(s, s.handlers[call_name], call_args)
    ELSE R(s, "CommError", PyNone)

\* lines 347-352: the handler has returned or raised (ret); its value, or
\* the error, is sent back
_handle_remote_call_finish(msg_dict, ret) ==
    LET ok == _set_call_return_value(
                  [ret.st EXCEPT !.obs.handler = "returned"],
                  msg_dict, ret.val, FALSE)
        \* the except clause: the handler or the sending of its value failed
        failed == IF ret.exc # None
                  THEN [ret.st EXCEPT !.obs.handler = "raised",
                                      !.obs.herr = ret.exc]
                  ELSE ok.st
        etype == IF ret.exc # None THEN ret.exc ELSE ok.exc
    IN  IF ret.exc = None /\ ok.exc = None THEN ok
        ELSE _set_call_return_value(failed, msg_dict,
                 CommsErrorWrapper(msg_dict.call_name, msg_dict.call_id,
                                   etype),
                 TRUE)

\* (mutant) a call that cannot be unpickled is answered with an error reply
HandleCall_RepliesOnLoadError(s, msg, buffer, load_exception) ==
    LET msg_dict == msg.content
        ret == _remote_callback(s, msg_dict.call_name, buffer.call_args)
    IN  IF load_exception # None
        THEN _set_call_return_value(s, msg_dict,
                 CommsErrorWrapper(msg_dict.call_name, msg_dict.call_id,
                                   load_exception),
                 TRUE)
        ELSE IF ret.wait # NoWait THEN ret
        ELSE _handle_remote_call_finish(msg_dict, ret)

\* a handler that waits for the reply to a call of its own suspends the
\* method in _wait_reply
_handle_remote_call(s, msg, buffer, load_exception) ==
    LET msg_dict == msg.content
        ret == _remote_callback(s, msg_dict.call_name, buffer.call_args)
    IN  IF load_exception # None THEN R(s, None, PyNone)
        ELSE IF ret.wait # NoWait THEN ret
        ELSE _handle_remote_call_finish(msg_dict, ret)

\* _comm_message(msg) for a message that came on comm_id
_comm_message(s, comm_id, msg_dict) ==
    LET l == loads(msg_dict.buffer, HIGHEST_PROTOCOL(s.me))
        s1 == [s EXCEPT !.calling_comm_id = comm_id,
                        !.obs.load_exception = l.exc]
    IN  IF msg_dict.spyder_msg_type = "remote_call"
        THEN _handle_remote_call(s1, msg_dict, l.obj, l.exc)
        ELSE IF msg_dict.spyder_msg_type = "remote_call_reply"
        THEN _handle_remote_call_reply(s1, msg_dict, l.obj, l.exc)
        ELSE R(s1, None, PyNone)

----------------------------------------------------------------------------
(* The state: two endpoints, the transport between them, the calling flow  *)
(* of each endpoint and what the last operation did.                       *)

\* the functions an application may register as the handler of "cmd"
UserHandlers == {"div", "decode", "quit"}

\* the arguments an application calls "cmd" with
UserArgs == {PyInt(0), PyInt(2)}

\* remote_call(**settings)
UserSettings == {<<>>, [blocking |-> TRUE]}

\* remote_call(callback=...)
UserCallbacks == {None, "cb_ok", "cb_raise"}

NoMsg == [spyder_msg_type |-> None]

\* m is the envelope of the call with this call id
IsCallTo(m, call_id) ==
    /\ m.spyder_msg_type = "remote_call"
    /\ m.content.call_id = call_id
NoCall == [call_id |-> NoWait]

Event(op, e, chan, msg, call, r) ==
    [op |-> op, e |-> e, chan |-> chan, msg |-> msg, call |-> call,
     exc |-> r.exc, val |-> r.val, out |-> r.st.out,
     closed |-> r.st.closed, obs |-> r.st.obs]

\* the fields of endpoint e, at the start of an operation
S(e) ==
    [me |-> e, comms |-> comms[e], calling_comm_id |-> calling_comm_id[e],
     handlers |-> remote_call_handlers[e], inbox |-> reply_inbox[e],
     waitlist |-> reply_waitlist[e], uuid |-> uuid,
     out |-> [c \in Chans |-> <<>>], closed |-> {}, obs |-> NoObs]

\* the fields of endpoint e after an operation, and the transport: what e
\* sent is queued for the peer unless the peer's end is closed; a comm that
\* e closed delivers nothing more to e and the peer is notified
Commit(e, s, net0, link0, note0) ==
    /\ comms' = [comms EXCEPT ![e] = s.comms]
    /\ calling_comm_id' = [calling_comm_id EXCEPT ![e] = s.calling_comm_id]
    /\ remote_call_handlers' = [remote_call_handlers EXCEPT ![e] = s.handlers]
    /\ reply_inbox' = [reply_inbox EXCEPT ![e] = s.inbox]
    /\ reply_waitlist' = [reply_waitlist EXCEPT ![e] = s.waitlist]
    /\ uuid' = s.uuid
    /\ link' = [c \in Chans |-> [x \in Endpoints |->
                  IF x = e /\ c \in s.closed THEN "closed" ELSE link0[c][x]]]
    /\ net' = [c \in Chans |-> [x \in Endpoints |->
                  IF x = e
                  THEN IF c \in s.closed THEN <<>> ELSE net0[c][x]
                  ELSE IF link0[c][x] = "closed" THEN <<>>
                  ELSE net0[c][x] \o s.out[c]]]
    /\ closeNote' = [c \in Chans |-> [x \in Endpoints |->
                  IF x # e /\ c \in s.closed /\ link0[c][x] # "closed"
                  THEN TRUE ELSE note0[c][x]]]

Init ==
    /\ comms = [e \in Endpoints |-> <<>>]
    /\ calling_comm_id = [e \in Endpoints |-> None]
    /\ remote_call_handlers = [e \in Endpoints |->
           [ping |-> "pong_back", pong |-> "pong",
            _set_pickle_protocol |-> "_set_pickle_protocol"]]
    /\ reply_inbox = [e \in Endpoints |-> <<>>]
    /\ reply_waitlist = [e \in Endpoints |-> <<>>]
    /\ link = [c \in Chans |-> [e \in Endpoints |-> "new"]]
    /\ net = [c \in Chans |-> [e \in Endpoints |-> <<>>]]
    /\ closeNote = [c \in Chans |-> [e \in Endpoints |-> FALSE]]
    /\ pc = [e \in Endpoints |-> NoCall]
    /\ uuid = 1
    /\ resolved = {}
    /\ expired = {}
    /\ untracked = {}
    /\ ev = Event("init", None, None, NoMsg, NoCall, R(S("A"), None, PyNone))

----------------------------------------------------------------------------
(* Actions *)

\* a subclass opens a comm and registers it
RegisterComm(e, c) ==
    /\ link[c][e] = "new"
    /\ LET s == _register_comm(S(e), c)
       IN  /\ Commit(e, s, net, [link EXCEPT ![c][e] = "open"], closeNote)
           /\ ev' = Event("register_comm", e, c, NoMsg, NoCall,
                          R(s, None, PyNone))
    /\ UNCHANGED <<pc, resolved, expired, untracked>>

\* the application calls close(comm_id)
Close(e, comm_id) ==
    /\ LET r == close(S(e), comm_id)
       IN  /\ Commit(e, r.st, net, link, closeNote)
           /\ ev' = Event("close", e, comm_id, NoMsg, NoCall, r)
    /\ UNCHANGED <<pc, resolved, expired, untracked>>

\* the transport tells e that the peer closed comm c
CommClose(e, c) ==
    /\ closeNote[c][e]
    /\ link[c][e] # "new"
    /\ LET r == _comm_close(S(e), c)
           net0 == [net EXCEPT ![c][e] = <<>>]
       IN  /\ Commit(e, r.st, net0, [link EXCEPT ![c][e] = "closed"],
                  [closeNote EXCEPT ![c][e] = FALSE])
           /\ ev' = Event("comm_close", e, c, NoMsg, NoCall, r)
    /\ UNCHANGED <<pc, resolved, expired, untracked>>

\* the application asks is_ready(comm_id)
IsReady(e, comm_id) ==
    /\ LET r == is_ready(S(e), comm_id)
       IN  /\ Commit(e, r.st, net, link, closeNote)
           /\ ev' = Event("is_ready", e, comm_id, NoMsg, NoCall, r)
    /\ UNCHANGED <<pc, resolved, expired, untracked>>

\* the application registers (or, with None, unregisters) a call handler
RegisterCallHandler(e, call_name, handler) ==
    /\ LET s == register_call_handler(S(e), call_name, handler)
       IN  /\ Commit(e, s, net, link, closeNote)
           /\ ev' = Event("register_call_handler", e, None, NoMsg, NoCall,
                          R(s, None, PyNone))
    /\ UNCHANGED <<pc, resolved, expired, untracked>>

\* the calling flow of e calls remote_call(comm_id, callback, **settings)
\* .name(args); a blocking call that was sent suspends in _wait_reply
IssueCall(e, name, args, comm_id, callback, settings) ==
    /\ pc[e] = NoCall
    /\ uuid <= MaxCalls
    /\ LET r == RemoteCall___call__(S(e), name, comm_id, callback, settings,
                                    args)
           call == [call_id |-> uuid, call_name |-> name, args |-> args,
                    comm_id |-> comm_id, callback |-> callback,
                    blocking |-> "blocking" \in DOMAIN settings
                                 /\ settings["blocking"],
                    ready |-> is_ready(S(e), comm_id).val = PyBool(TRUE),
                    reply |-> NoMsg, serving |-> NoMsg, served_on |-> None]
       IN  /\ Commit(e, r.st, net, link, closeNote)
           /\ pc' = [pc EXCEPT ![e] = IF r.wait = NoWait THEN NoCall ELSE call]
           /\ ev' = Event("call", e, comm_id, NoMsg, call, r)
           /\ untracked' = IF /\ is_open(S(e), comm_id)
                               /\ ~call.blocking
                               /\ callback = None
                            THEN untracked \cup {uuid}
                            ELSE untracked
    /\ UNCHANGED <<resolved, expired>>

\* the blocking call that the handler of the incoming call msg issued on
\* comm c0 at endpoint e, where it is now waiting (result r)
NestedCall(e, c0, msg, r) ==
    LET sent == CHOOSE m \in UNION {{r.st.out[c][i] : i \in 1..Len(r.st.out[c])}
                                      : c \in Chans} :
                    IsCallTo(m, r.wait)
    IN  [call_id |-> r.wait, call_name |-> sent.content.call_name,
         args |-> sent.buffer.obj.call_args,
         comm_id |-> CHOOSE c \in Chans :
                         \E i \in 1..Len(r.st.out[c]) : r.st.out[c][i] = sent,
         callback |-> None, blocking |-> TRUE,
         ready |-> FALSE, reply |-> NoMsg,
         serving |-> msg, served_on |-> c0]

\* the transport hands e the next message that came on comm c; pc notes the
\* first reply to the call e is waiting in, and the call a handler starts
\* to wait in (one handler at a time)
Deliver(e, c) ==
    /\ link[c][e] = "open"
    /\ net[c][e] # <<>>
    /\ LET msg == Head(net[c][e])
           r == _comm_message(S(e), c, msg)
           answers == /\ pc[e] # NoCall
                      /\ msg.spyder_msg_type = "remote_call_reply"
                      /\ msg.content.call_id = pc[e].call_id
                      /\ pc[e].reply = NoMsg
       IN  /\ Commit(e, r.st, [net EXCEPT ![c][e] = Tail(@)], link, closeNote)
           /\ r.wait # NoWait => pc[e] = NoCall
           /\ pc' = IF r.wait # NoWait
                    THEN [pc EXCEPT ![e] = NestedCall(e, c, msg, r)]
                    ELSE IF answers THEN [pc EXCEPT ![e].reply = msg]
                    ELSE pc
           /\ resolved' = IF /\ msg.spyder_msg_type = "remote_call_reply"
                             /\ ~r.st.obs.unmatched
                          THEN resolved \cup {msg.content.call_id}
                          ELSE resolved
           /\ ev' = Event("deliver", e, c, msg, pc[e], r)
           /\ untracked' = untracked \cup
                  {i \in uuid..(r.st.uuid - 1) :
                      /\ i \notin DOMAIN r.st.waitlist
                      /\ \E ch \in Chans :
                             \E k \in 1..Len(r.st.out[ch]) :
                                 IsCallTo(r.st.out[ch][k], i)}
    /\ UNCHANGED expired

\* _wait_reply returns: the reply is in the inbox
WaitReturn(e) ==
    /\ pc[e] # NoCall
    /\ pc[e].serving = NoMsg
    /\ _wait_reply_done(S(e), pc[e].call_id)
    /\ LET r == _get_call_return_value_reply(S(e), pc[e].call_id)
       IN  /\ Commit(e, r.st, net, link, closeNote)
           /\ ev' = Event("return", e, None, NoMsg, pc[e], r)
    /\ pc' = [pc EXCEPT ![e] = NoCall]
    /\ UNCHANGED <<resolved, expired, untracked>>

\* _wait_reply gives up: no reply came within the timeout
WaitTimeout(e) ==
    /\ pc[e] # NoCall
    /\ pc[e].serving = NoMsg
    /\ ~_wait_reply_done(S(e), pc[e].call_id)
    /\ LET r == _wait_reply_timeout(S(e), pc[e].call_id)
       IN  /\ Commit(e, r.st, net, link, closeNote)
           /\ ev' = Event("timeout", e, None, NoMsg, pc[e], r)
    /\ pc' = [pc EXCEPT ![e] = NoCall]
    /\ expired' = expired \cup {pc[e].call_id}
    /\ UNCHANGED <<resolved, untracked>>

\* _wait_reply returns in a handler: the handler returns the value of its
\* call (or raises its error) and _handle_remote_call goes on
HandlerReturn(e) ==
    /\ pc[e] # NoCall
    /\ pc[e].serving # NoMsg
    /\ _wait_reply_done(S(e), pc[e].call_id)
    /\ LET ret == _get_call_return_value_reply(S(e), pc[e].call_id)
           r == _handle_remote_call_finish(pc[e].serving.content, ret)
       IN  /\ Commit(e, r.st, net, link, closeNote)
           /\ ev' = Event("resume", e, pc[e].served_on, pc[e].serving,
                          pc[e], r)
    /\ pc' = [pc EXCEPT ![e] = NoCall]
    /\ UNCHANGED <<resolved, expired, untracked>>

\* _wait_reply gives up in a handler: the handler fails with the timeout
\* error and _handle_remote_call goes on in its except clause
HandlerTimeout(e) ==
    /\ pc[e] # NoCall
    /\ pc[e].serving # NoMsg
    /\ ~_wait_reply_done(S(e), pc[e].call_id)
    /\ LET ret == _wait_reply_timeout(S(e), pc[e].call_id)
           r == _handle_remote_call_finish(pc[e].serving.content, ret)
       IN  /\ Commit(e, r.st, net, link, closeNote)
           /\ ev' = Event("resume", e, pc[e].served_on, pc[e].serving,
                          pc[e], r)
    /\ pc' = [pc EXCEPT ![e] = NoCall]
    /\ expired' = expired \cup {pc[e].call_id}
    /\ UNCHANGED <<resolved, untracked>>

\* The behaviours checked: endpoint A opens the comms and is the calling
\* side, endpoint B accepts them and runs the application's handler, which
\* it registers while it starts; each side sends the other the handshake.
OpenComm(c) == RegisterComm("A", c)

AcceptComm(c) == link[c]["A"] # "new" /\ RegisterComm("B", c)

Startup(h) ==
    /\ \A c \in Chans : link[c]["B"] = "new"
    /\ RegisterCallHandler("B", "cmd", h)

Next ==
    \/ \E c \in Chans : OpenComm(c)
    \/ \E c \in Chans : AcceptComm(c)
    \/ \E h \in UserHandlers : Startup(h)
    \/ \E e \in Endpoints, c \in Chans : CommClose(e, c)
    \/ \E x \in UserArgs, c \in {"c1", None}, cb \in UserCallbacks,
          st \in UserSettings : IssueCall("A", "cmd", x, c, cb, st)
    \/ \E c \in {"c1", None} : IssueCall("A", "ping", PyNone, c, None, <<>>)
    \/ \E c \in {"c1", None} :
           IssueCall("A", "_set_pickle_protocol", PyInt(4), c, None, <<>>)
    \/ IssueCall("B", "_set_pickle_protocol", PyInt(4), "c1", None, <<>>)
    \/ \E e \in Endpoints, c \in Chans : Deliver(e, c)
    \/ \E e \in Endpoints : WaitReturn(e)
    \/ \E e \in Endpoints : WaitTimeout(e)

Spec == Init /\ [][Next]_vars

\* The life of the sessions: both sides open, close and ask about comms and
\* send each other the handshake, _set_pickle_protocol(HIGHEST_PROTOCOL).
Handshake(e, c) ==
    IssueCall(e, "_set_pickle_protocol", PyInt(HIGHEST_PROTOCOL(e)), c, None,
              <<>>)

NextSession ==
    \/ \E c \in Chans : OpenComm(c)
    \/ \E c \in Chans : AcceptComm(c)
    \/ \E e \in Endpoints, c \in Chans \cup {None} : Close(e, c)
    \/ \E e \in Endpoints, c \in Chans : CommClose(e, c)
    \/ \E e \in Endpoints, c \in Chans : Handshake(e, c)
    \/ \E e \in Endpoints, c \in Chans :
           IssueCall(e, "_set_pickle_protocol",
                     PyInt(DEFAULT_PICKLE_PROTOCOL), c, None, <<>>)
    \/ \E e \in Endpoints, c \in Chans : Deliver(e, c)
    \/ \E e \in Endpoints, c \in Chans \cup {None} : IsReady(e, c)

SpecSession == Init /\ [][NextSession]_vars

\* A handler that waits: B's handler of "cmd" asks A on comm c2 and waits
\* for the answer, while messages go on being delivered to B.
NextNested ==
    \/ \E c \in Chans : OpenComm(c)
    \/ \E c \in Chans : AcceptComm(c)
    \/ Startup("relay")
    \/ \E cb \in {None, "cb_ok"}, st \in UserSettings :
           IssueCall("A", "cmd", PyInt(2), "c1", cb, st)
    \/ IssueCall("A", "ping", PyNone, "c2", None, <<>>)
    \/ IssueCall("A", "_set_pickle_protocol", PyInt(4), "c2", None, <<>>)
    \/ \E e \in Endpoints, c \in Chans : Deliver(e, c)
    \/ \E e \in Endpoints : WaitReturn(e)
    \/ \E e \in Endpoints : WaitTimeout(e)
    \/ \E e \in Endpoints : HandlerReturn(e)
    \/ \E e \in Endpoints : HandlerTimeout(e)

SpecNested == Init /\ [][NextNested]_vars

\* Closing while calls are pending: A calls B's handler of "cmd" and either
\* side closes comms, at any moment.
NextClose ==
    \/ \E c \in Chans : OpenComm(c)
    \/ \E c \in Chans : AcceptComm(c)
    \/ Startup("div")
    \/ \E e \in Endpoints, c \in {"c1", None} : Close(e, c)
    \/ \E e \in Endpoints, c \in Chans : CommClose(e, c)
    \/ \E c \in {"c1", None}, cb \in {None, "cb_ok"}, st \in UserSettings :
           IssueCall("A", "cmd", PyInt(2), c, cb, st)
    \/ \E e \in Endpoints, c \in Chans : Deliver(e, c)
    \/ \E e \in Endpoints : WaitReturn(e)
    \/ \E e \in Endpoints : WaitTimeout(e)

SpecClose == Init /\ [][NextClose]_vars

----------------------------------------------------------------------------
(* Properties *)

IsCall(m) == m.spyder_msg_type = "remote_call"
IsReply(m) == m.spyder_msg_type = "remote_call_reply"

\* endpoint e can unpickle the buffer of m
Decodes(e, m) == loads(m.buffer, HIGHEST_PROTOCOL(e)).exc = None

\* the replies among the messages an operation sent
RepliesSent(out) ==
    {<<c, i>> \in Chans \X (1..2) : i <= Len(out[c]) /\ IsReply(out[c][i])}

\* the last operation ended a blocking call of its endpoint
CallEnded == ev.op \in {"return", "timeout"}

\* ... whose reply had been delivered to the endpoint, unpickled, while the
\* call was waiting
ReplyCame == /\ CallEnded
             /\ ev.call.reply # NoMsg
             /\ Decodes(ev.e, ev.call.reply)

\* C1: a blocking call whose handler returned v and whose reply was
\* delivered before the timeout returns exactly v, and its call id is then
\* in neither the waitlist nor the inbox.
C1_BlockingCallReturnsValue ==
    (ReplyCame /\ ev.call.ready /\ ~ev.call.reply.content.is_error) =>
        /\ ev.op = "return"
        /\ ev.exc = None
        /\ ev.val = ev.call.reply.buffer.obj
        /\ ev.call.call_id \notin DOMAIN reply_waitlist[ev.e]
        /\ ev.call.call_id \notin DOMAIN reply_inbox[ev.e]

\* C2: a blocking call whose handler raised an error of kind K, once its
\* error reply is delivered, ends by raising an error of kind K, and the
\* inbox slot of the call id is consumed.
C2_BlockingCallRaisesSameKind ==
    (ReplyCame /\ ev.call.reply.content.is_error) =>
        /\ ev.op = "return"
        /\ ev.exc = ev.call.reply.buffer.obj.etype
        /\ ev.call.call_id \notin DOMAIN reply_inbox[ev.e]

\* the last operation delivered a reply
ReplyDelivered == ev.op = "deliver" /\ IsReply(ev.msg)

\* C3: a wait that times out fails with a timeout error and takes the call
\* id out of the waitlist; a reply to that call id that comes later matches
\* no entry and leaves no slot in the inbox.
C3_TimeoutThenLateReply ==
    /\ ev.op = "timeout" =>
           /\ ev.exc = "TimeoutError"
           /\ ev.call.call_id \notin DOMAIN reply_waitlist[ev.e]
    /\ \A e \in Endpoints, i \in expired :
           /\ i \notin DOMAIN reply_waitlist[e]
           /\ i \notin DOMAIN reply_inbox[e]
    /\ (ReplyDelivered /\ ev.msg.content.call_id \in expired) =>
           ev.obs.unmatched

\* a reply came after the timeout of its call
C3_Witness ==
    /\ ReplyDelivered
    /\ ev.msg.content.call_id \in expired
    /\ ev.obs.unmatched

\* the target of the call that the next step issues is not open
ClosedTargetCall ==
    /\ ev'.op = "call"
    /\ ~is_open(S(ev'.e), ev'.call.comm_id)

\* C4: a call whose target is not open sends nothing and registers nothing:
\* non-blocking it returns None without error, blocking it raises CommError;
\* waitlist and inbox are unchanged.
C4_ClosedTargetCall ==
    [][ClosedTargetCall =>
          /\ net' = net
          /\ reply_waitlist' = reply_waitlist
          /\ reply_inbox' = reply_inbox
          /\ pc' = pc
          /\ IF ev'.call.blocking
             THEN ev'.exc = "CommError"
             ELSE ev'.exc = None /\ ev'.val = PyNone]_vars

\* a blocking call with a callback was issued to a target that is not open
C4_Witness ==
    /\ ev.op = "call"
    /\ ~is_open(S(ev.e), ev.call.comm_id)
    /\ ev.call.blocking
    /\ ev.call.callback # None
    /\ ev.exc = "CommError"

\* C5: once a reply has matched a call id, every further reply with that
\* call id is unmatched: no callback runs and the inbox is left as it is.
C5_ResolvedAtMostOnce ==
    [][(ev'.op = "deliver" /\ IsReply(ev'.msg)
        /\ ev'.msg.content.call_id \in resolved) =>
          /\ ev'.obs.unmatched
          /\ ev'.obs.cbs = <<>>
          /\ reply_inbox' = reply_inbox
          /\ reply_waitlist' = reply_waitlist]_vars

\* the second reply of a call sent to both comms was delivered, when the
\* first had run the callback
C5_Witness ==
    /\ ReplyDelivered
    /\ ev.msg.content.call_id \in resolved
    /\ ev.obs.unmatched
    /\ ev.chan = "c2"

\* C6: delivering a reply whose call id is in no waitlist entry leaves
\* waitlist, inbox, sessions and call handlers as they are, and runs no
\* callback; a reply that is not an error prints nothing.
C6_UnmatchedReplyFrame ==
    [][(ev'.op = "deliver" /\ IsReply(ev'.msg)
        /\ ev'.msg.content.call_id \notin DOMAIN reply_waitlist[ev'.e]) =>
          /\ reply_waitlist' = reply_waitlist
          /\ reply_inbox' = reply_inbox
          /\ comms' = comms
          /\ remote_call_handlers' = remote_call_handlers
          /\ ev'.obs.unmatched
          /\ ev'.obs.cbs = <<>>
          /\ (Decodes(ev'.e, ev'.msg) /\ ~ev'.msg.content.is_error) =>
                 (ev'.obs.printed = 0 /\ ev'.exc = None)
          /\ (Decodes(ev'.e, ev'.msg) /\ ev'.msg.content.is_error) =>
                 (ev'.obs.printed = 1 /\ ev'.exc = None)]_vars

\* an error reply nobody waits for was delivered while another call was
\* pending
C6_Witness ==
    /\ ReplyDelivered
    /\ ev.obs.unmatched
    /\ ev.msg.content.is_error
    /\ DOMAIN reply_waitlist[ev.e] # {}

\* the last operation ran an incoming call whose payload was unpickled
CallDelivered ==
    /\ ev.op = "deliver"
    /\ IsCall(ev.msg)
    /\ Decodes(ev.e, ev.msg)

\* what the incoming call of the last operation asked for and how it went
WantsReply ==
    /\ "send_reply" \in DOMAIN ev.msg.content.settings
    /\ ev.msg.content.settings["send_reply"]

HandlerFailed == ev.obs.handler = "raised"

\* the executing side sent a reply iff the call has send_reply or its
\* handler failed: one reply, to the call id, an error reply iff the handler
\* failed
ReplyRule ==
    LET sent == RepliesSent(ev.out)
    IN  IF WantsReply \/ HandlerFailed
        THEN /\ Cardinality(sent) = 1
             /\ \A x \in sent :
                    LET m == ev.out[x[1]][x[2]]
                    IN  /\ x[1] = ev.chan
                        /\ m.content.call_id = ev.msg.content.call_id
                        /\ m.content.is_error = HandlerFailed
        ELSE sent = {}

\* C7: for every incoming call that was unpickled, a reply is sent iff
\* send_reply is true or the handler failed; is_error tells which.
C7_ReplyIffRequestedOrFailed == CallDelivered => ReplyRule

\* C8: the delivery of an incoming call never ends with an error: whatever
\* the handler does, its failure becomes an error reply.
C8_NoErrorEscapesDelivery ==
    (ev.op = "deliver" /\ IsCall(ev.msg)) =>
        /\ ev.exc = None
        /\ HandlerFailed => Cardinality(RepliesSent(ev.out)) = 1

\* the step delivers the handshake call to endpoint e on comm c
HandshakeDelivered(e, c) ==
    /\ ev'.op = "deliver"
    /\ ev'.e = e
    /\ ev'.chan = c
    /\ IsCall(ev'.msg)
    /\ ev'.msg.content.call_name = "_set_pickle_protocol"

\* C9: a session starts 'opening' with the default protocol when its comm
\* is registered; a session that stays changes only when the handshake
\* call comes on its own comm, which makes it ready; a ready session stays
\* ready.
C9_SessionStatus ==
    [][\A e \in Endpoints, c \in Chans :
          /\ (c \notin DOMAIN comms[e] /\ c \in DOMAIN comms'[e]) =>
                 /\ ev'.op = "register_comm"
                 /\ comms'[e][c] =
                        [pickle_protocol |-> DEFAULT_PICKLE_PROTOCOL,
                         status |-> "opening"]
          /\ (c \in DOMAIN comms[e] /\ c \in DOMAIN comms'[e]) =>
                 /\ comms'[e][c] # comms[e][c] =>
                        /\ HandshakeDelivered(e, c)
                        /\ comms'[e][c].status = "ready"
                 /\ comms[e][c].status = "ready" =>
                        comms'[e][c].status = "ready"]_vars

\* the handshake made one session of an endpoint ready and the endpoint's
\* other session is still opening
C9_Witness ==
    /\ ev.op = "deliver"
    /\ IsCall(ev.msg)
    /\ ev.msg.content.call_name = "_set_pickle_protocol"
    /\ ev.chan = "c1"
    /\ "c1" \in DOMAIN comms[ev.e]
    /\ comms[ev.e]["c1"].status = "ready"
    /\ "c2" \in DOMAIN comms[ev.e]
    /\ comms[ev.e]["c2"].status = "opening"

\* what is_ready is to report at endpoint e for comm_id
ReadyAt(e, comm_id) ==
    IF comm_id = None
    THEN /\ DOMAIN comms[e] # {}
         /\ \A c \in DOMAIN comms[e] : comms[e][c].status = "ready"
    ELSE /\ comm_id \in DOMAIN comms[e]
         /\ comms[e][comm_id].status = "ready"

\* C10: is_ready() is true exactly when there is an open comm and all open
\* comms are ready; is_ready(comm_id), for a comm that is or was open, is
\* true exactly when it is open and ready, and never fails.
C10_IsReadyReports ==
    (/\ ev.op = "is_ready"
     /\ ev.chan # None => link[ev.chan][ev.e] # "new") =>
        /\ ev.exc = None
        /\ ev.val = PyBool(ReadyAt(ev.e, ev.chan))

\* the last operation closed a comm that had been registered at its endpoint
\* (or, with None, all comms): close(comm_id) or the remote close notice
CloseDone ==
    /\ ev.op \in {"close", "comm_close"}
    /\ ev.chan # None => link[ev.chan][ev.e] # "new"

\* C11: after close(comm_id), close() or a close notification the comm is
\* no longer open, and the operation raises nothing, whatever was closed
\* before.
C11_CloseIsUnconditional ==
    CloseDone =>
        /\ ev.exc = None
        /\ ~is_open(S(ev.e), ev.chan)

\* the step issues a call whose target is open
OpenTargetCall ==
    /\ ev'.op = "call"
    /\ is_open(S(ev'.e), ev'.call.comm_id)

\* the call the step issues is sent on every comm it is addressed to
CallSent ==
    \A c \in get_comm_id_list(S(ev'.e), ev'.call.comm_id) :
        \E i \in 1..Len(ev'.out[c]) :
            /\ IsCall(ev'.out[c][i])
            /\ ev'.out[c][i].content.call_id = ev'.call.call_id

\* C12: a call on an open comm gets a waitlist entry iff it is blocking or
\* has a callback; a call with neither is sent and leaves the waitlist as
\* it is, and a reply that later carries its call id is unmatched.
C12_EntryIffBlockingOrCallback ==
    [][/\ OpenTargetCall =>
            LET tracked == ev'.call.blocking \/ ev'.call.callback # None
            IN  /\ CallSent
                /\ (ev'.call.call_id \in DOMAIN reply_waitlist'[ev'.e])
                       <=> tracked
                /\ ~tracked => reply_waitlist' = reply_waitlist
       /\ (/\ ev'.op = "deliver"
           /\ IsReply(ev'.msg)
           /\ ev'.msg.content.call_id \in untracked) =>
               /\ ev'.obs.unmatched
               /\ ev'.obs.cbs = <<>>
               /\ reply_waitlist' = reply_waitlist
               /\ reply_inbox' = reply_inbox]_vars

\* the error reply to a call sent with no entry was delivered
C12_Witness ==
    /\ ReplyDelivered
    /\ ev.msg.content.call_id \in untracked
    /\ ev.msg.content.call_name = "cmd"
    /\ ev.obs.unmatched

\* the last operation ran, or went on running, the handler of an incoming
\* call: ev.chan is the comm the call came on
HandlerRan ==
    /\ ev.op \in {"deliver", "resume"}
    /\ IsCall(ev.msg)

\* C13: every reply to an incoming call is sent on the comm the call came
\* on, whatever was delivered to the endpoint while the handler was running.
C13_ReplyOnCallingComm ==
    HandlerRan =>
        \A x \in RepliesSent(ev.out) :
            ev.out[x[1]][x[2]].content.call_id = ev.msg.content.call_id
                => x[1] = ev.chan

\* the last operation delivered, to the caller waiting for it, the success
\* reply that matched its blocking call with a callback
CallbackReplyDelivered ==
    /\ ReplyDelivered
    /\ Decodes(ev.e, ev.msg)
    /\ ~ev.msg.content.is_error
    /\ ~ev.obs.unmatched
    /\ ev.call # NoCall
    /\ ev.call.call_id = ev.msg.content.call_id
    /\ ev.call.callback # None

\* C14: a success reply that matches a blocking call with a callback fills
\* the inbox slot of the call, also when the callback raises; the call id of
\* a waiting caller is never absent from both the waitlist and the inbox.
C14_CallbackKeepsCallResolvable ==
    /\ CallbackReplyDelivered =>
           ev.call.call_id \in DOMAIN reply_inbox[ev.e]
    /\ \A e \in Endpoints :
           pc[e] # NoCall =>
               pc[e].call_id \in
                   DOMAIN reply_waitlist[e] \cup DOMAIN reply_inbox[e]

\* the step delivers a reply
ReplyStep ==
    /\ ev'.op = "deliver"
    /\ IsReply(ev'.msg)

\* C15: the callback of a call is called, once and with the reply's value,
\* exactly when a success reply matches the call's entry; an error reply
\* that matches a non-blocking entry removes the entry, calls no callback,
\* goes to _async_error and leaves the inbox as it is.  (A reply that
\* cannot be unpickled counts as an error reply, as in line 444.)
C15_CallbackOnSuccessOnly ==
    [][ReplyStep =>
          LET e == ev'.e
              id == ev'.msg.content.call_id
              is_error == \/ ev'.msg.content.is_error
                          \/ ~Decodes(e, ev'.msg)
              matched == id \in DOMAIN reply_waitlist[e]
          IN  /\ ev'.obs.cbs =
                     IF /\ matched
                        /\ ~is_error
                        /\ reply_waitlist[e][id].callback # None
                     THEN << <<id, ev'.msg.buffer.obj>> >>
                     ELSE <<>>
              /\ (matched /\ is_error /\ ~reply_waitlist[e][id].blocking) =>
                     /\ id \notin DOMAIN reply_waitlist'[e]
                     /\ reply_inbox' = reply_inbox
                     /\ Decodes(e, ev'.msg) =>
                            (ev'.obs.printed = 1 /\ ev'.exc = None)]_vars

\* an error reply matched the entry of a non-blocking call with a callback
\* and was printed by _async_error
C15_Witness ==
    /\ ReplyDelivered
    /\ Decodes(ev.e, ev.msg)
    /\ ev.msg.content.is_error
    /\ ~ev.obs.unmatched
    /\ ev.obs.printed = 1
    /\ ev.obs.cbs = <<>>

\* endpoint e waits in a blocking call sent on one comm, which is closed at
\* e, and the call's entry is still in the waitlist
WaitsOnClosedComm(e) ==
    /\ pc[e] # NoCall
    /\ pc[e].comm_id \in Chans
    /\ pc[e].comm_id \notin DOMAIN comms[e]
    /\ pc[e].call_id \in DOMAIN reply_waitlist[e]

\* C16: close(comm_id), close() and the remote close notification leave
\* the waitlist and the inbox as they are and release no waiting caller; a
\* caller that waits on a closed comm stops waiting only by its timeout.
C16_CloseKeepsPendingCalls ==
    [][/\ ev'.op \in {"close", "comm_close"} =>
            /\ reply_waitlist' = reply_waitlist
            /\ reply_inbox' = reply_inbox
            /\ pc' = pc
       /\ \A e \in Endpoints :
            (WaitsOnClosedComm(e) /\ pc'[e] # pc[e]) =>
                /\ ev'.op = "timeout"
                /\ ev'.e = e]_vars

\* the comm of a blocking call was closed locally while the caller waits,
\* and the entry of the call is still there
C16_Witness ==
    /\ ev.op = "close"
    /\ ev.exc = None
    /\ WaitsOnClosedComm(ev.e)
    /\ pc[ev.e].comm_id \in ev.closed

\* the step delivers a call that endpoint e cannot unpickle
UndecodableCallStep ==
    /\ ev'.op = "deliver"
    /\ IsCall(ev'.msg)
    /\ ~Decodes(ev'.e, ev'.msg)

\* C17: a call whose payload cannot be unpickled is dropped: no handler is
\* called, nothing is sent, whatever send_reply says, and waitlist, inbox
\* and sessions of the endpoint stay as they are.
C17_UndecodableCallDropped ==
    [][UndecodableCallStep =>
          /\ ev'.obs.handler = "not_called"
          /\ ev'.exc = None
          /\ \A c \in Chans : ev'.out[c] = <<>>
          /\ net' = [net EXCEPT ![ev'.chan][ev'.e] = Tail(@)]
          /\ reply_waitlist' = reply_waitlist
          /\ reply_inbox' = reply_inbox
          /\ comms' = comms
          /\ remote_call_handlers' = remote_call_handlers]_vars

\* a call that asks for a reply could not be unpickled and was dropped
C17_Witness ==
    /\ ev.op = "deliver"
    /\ IsCall(ev.msg)
    /\ ~Decodes(ev.e, ev.msg)
    /\ WantsReply
    /\ RepliesSent(ev.out) = {}

\* the step delivers a reply that endpoint e cannot unpickle
UndecodableReplyStep ==
    /\ ev'.op = "deliver"
    /\ IsReply(ev'.msg)
    /\ ~Decodes(ev'.e, ev'.msg)

\* the step ends a blocking call whose reply came and could not be unpickled
UndecodableReplyEnds ==
    /\ ev'.op \in {"return", "resume"}
    /\ ev'.call.reply # NoMsg
    /\ ~Decodes(ev'.e, ev'.call.reply)

\* C18: a reply whose payload cannot be unpickled is handled as an error
\* reply: with no entry or a non-blocking entry it is printed by
\* _async_error and nothing is raised out of the delivery; with a blocking
\* entry the entry goes, the inbox slot has is_error true, and the waiting
\* caller ends with an error.
C18_UndecodableReplyHandled ==
    [][/\ UndecodableReplyStep =>
              LET e == ev'.e
                  id == ev'.msg.content.call_id
              IN  IF /\ id \in DOMAIN reply_waitlist[e]
                     /\ reply_waitlist[e][id].blocking
                  THEN /\ id \notin DOMAIN reply_waitlist'[e]
                       /\ id \in DOMAIN reply_inbox'[e]
                       /\ reply_inbox'[e][id].is_error
                       /\ ev'.exc = None
                  ELSE /\ id \notin DOMAIN reply_waitlist'[e]
                       /\ reply_inbox' = reply_inbox
                       /\ ev'.obs.printed = 1
                       /\ ev'.exc = None
       /\ UndecodableReplyEnds => ev'.exc # None]_vars

\* C19: a session starts with the default pickle protocol; the handshake
\* call sets it to the lower of the requested protocol and the endpoint's
\* highest one; once the session is ready, no step changes its protocol.
C19_ProtocolFrozenOnceReady ==
    [][\A e \in Endpoints, c \in Chans :
          /\ (c \notin DOMAIN comms[e] /\ c \in DOMAIN comms'[e]) =>
                 comms'[e][c].pickle_protocol = DEFAULT_PICKLE_PROTOCOL
          /\ (c \in DOMAIN comms[e] /\ c \in DOMAIN comms'[e]) =>
                 /\ (HandshakeDelivered(e, c) /\ Decodes(e, ev'.msg)) =>
                        comms'[e][c].pickle_protocol =
                            Min(ev'.msg.buffer.obj.call_args.v,
                                HIGHEST_PROTOCOL(e))
                 /\ comms[e][c].status = "ready" =>
                        comms'[e][c].pickle_protocol =
                            comms[e][c].pickle_protocol]_vars

\* no call id of an endpoint is in its waitlist and in its inbox
WaitlistInboxDisjoint ==
    \A e \in Endpoints :
        DOMAIN reply_waitlist[e] \cap DOMAIN reply_inbox[e] = {}

\* how call ids come into the waitlist and the inbox and leave the inbox
\* in one step
InboxMoves ==
    \A e \in Endpoints :
        /\ \A id \in DOMAIN reply_waitlist'[e] \ DOMAIN reply_waitlist[e] :
               LET call == IF ev'.op = "call" THEN ev'.call ELSE pc'[e]
               IN  /\ ev'.op \in {"call", "deliver"}
                   /\ ev'.e = e
                   /\ call # NoCall
                   /\ call.call_id = id
                   /\ reply_waitlist'[e][id].blocking = call.blocking
        /\ \A id \in DOMAIN reply_inbox'[e] \ DOMAIN reply_inbox[e] :
               /\ ev'.op = "deliver"
               /\ ev'.e = e
               /\ IsReply(ev'.msg)
               /\ ev'.msg.content.call_id = id
               /\ id \in DOMAIN reply_waitlist[e]
               /\ reply_waitlist[e][id].blocking
               /\ id \notin DOMAIN reply_waitlist'[e]
        /\ (/\ ev'.op \in {"return", "resume"}
            /\ ev'.e = e
            /\ ev'.call.call_id \in DOMAIN reply_inbox[e]) =>
               ev'.call.call_id \notin DOMAIN reply_inbox'[e]
        /\ (ev'.op = "return" /\ ev'.e = e) =>
               ev'.call.call_id \in DOMAIN reply_inbox[e]

\* C20: the waitlist and the inbox of an endpoint never hold the same call
\* id; a call id comes into the inbox only by a reply that takes it out of
\* the waitlist in the same step, from an entry of a call issued as
\* blocking, so the id of a non-blocking call never comes into the inbox;
\* the caller that consumes the reply takes the id out of the inbox.
C20_WaitlistInboxDisjoint == []WaitlistInboxDisjoint /\ [][InboxMoves]_vars

\* the reply of a blocking call with a callback has moved its id into the
\* inbox while a non-blocking call with a callback is still in the waitlist
C20_Witness ==
    /\ ReplyDelivered
    /\ ev.msg.content.call_id \in DOMAIN reply_inbox[ev.e]
    /\ ev.msg.content.call_id \notin DOMAIN reply_waitlist[ev.e]
    /\ ev.obs.cbs # <<>>
    /\ \E id \in DOMAIN reply_waitlist[ev.e] :
           ~reply_waitlist[ev.e][id].blocking

====
